---- MODULE Spec2Model ----
(***************************************************************************)
(* GitLab group statistics backend: POST /stats (app/routes.py), the       *)
(* statistics service (app/services.py) and the GitLab REST client         *)
(* (app/gitlab_client.py).                                                 *)
(*                                                                         *)
(* One request is followed from the route handler to its response.  Every  *)
(* HTTP request the client sends is one step; the code that runs between   *)
(* two requests belongs to the step of the request that precedes it.  The  *)
(* remote's answer to a request is an input of the step.                   *)
(***************************************************************************)
EXTENDS Integers, Sequences, FiniteSets

VARIABLES
    request,        \* class of the POST body received by get_stats
    group,          \* the remote's group: its state and its project listing
    pc,             \* position of the request handler
    page,           \* page index of the running pagination loop
    all_items,      \* all_projects / all_branches / all_merge_requests of the loop
    log,            \* history: the page requests of the loop and their answers
    projects,       \* collect_stats: the project list it fetched
    idx,            \* collect_stats: position of the for loop in projects
    stats,          \* collect_stats: the report under construction
    project_stats,  \* _collect_project_stats: the result under construction
    verify_status,  \* history: status of GET /projects/{id} for the project (0: not asked)
    branches,       \* get_project_commits: the branches it fetched
    bidx,           \* get_project_commits: position of the for loop in branches
    all_commits,    \* get_project_commits: the set of commit tuples
    requested,      \* history: ids of the projects a /projects/{id}... request was sent for
    response        \* the reply of POST /stats (status 0: none yet)

vars == <<request, group, pc, page, all_items, log, projects, idx, stats,
          project_stats, verify_status, branches, bidx, all_commits, requested,
          response>>

(***************************************************************************)
(* Bounds of the remote's data.                                            *)
(***************************************************************************)
\* Items the remote puts on one page (the client asks for per_page = 100).
MaxPageLen == 2
\* Projects in the group's listing.
MaxProjects == 2
\* Branches of a project.
MaxBranches == 2
\* Commits the remote lists for one branch.
MaxCommits == 1
\* Merge requests the remote lists for one project.
MaxMergeRequests == 2

\* Requests for which a remote that never serves a last page is followed.
MaxEndlessPages == 3

\* services.py line 35: the project id collect_stats always skips.
ExcludedProjectId == 174

Min(a, b) == IF a < b THEN a ELSE b

SeqsUpTo(S, n) == UNION {[1..k -> S] : k \in 0..n}

RECURSIVE SumSeq(_)
SumSeq(s) == IF s = <<>> THEN 0 ELSE Head(s) + SumSeq(Tail(s))

\* The order-preserving sub-lists of s.
RECURSIVE SubLists(_)
SubLists(s) ==
    IF s = <<>> THEN {<<>>}
    ELSE LET rest == SubLists(Tail(s))
         IN  rest \cup {<<Head(s)>> \o t : t \in rest}

(***************************************************************************)
(* The remote's data.                                                      *)
(***************************************************************************)
\* Project objects of GET /groups/{id}/projects, in the order the remote lists
\* them.  The second carries no 'name' key.
AllProjects ==
    << [id |-> 1, name |-> "alpha"],
       [id |-> 2],
       [id |-> ExcludedProjectId, name |-> "legacy"],
       [id |-> 175, name |-> "omega"] >>

Listings == {l \in SubLists(AllProjects) : Len(l) <= MaxProjects}

\* Commit objects of GET /projects/{id}/repository/commits.  The first two carry
\* the same id and differ in author_name.
Commits ==
    { [id |-> "c1", author_name |-> "ann", authored_date |-> "d1", title |-> "t1"],
      [id |-> "c1", author_name |-> "bob", authored_date |-> "d1", title |-> "t1"],
      [id |-> "c2", author_name |-> "ann", authored_date |-> "d1", title |-> "t1"] }

\* Merge request objects of GET /projects/{id}/merge_requests; the second has
\* no 'author' key.
MergeRequests == { [author |-> [name |-> "ann"]], [iid |-> 1] }

\* An answer of the remote to a page request.  A failure (an HTTP error status,
\* or a connection error, which the code treats alike) carries no items.
Failure(status) == [status |-> status, items |-> <<>>, next |-> FALSE]

Page(items, next) == [status |-> 200, items |-> items, next |-> next]

\* The 'next' link of a page: a page followed by more items carries it, an empty
\* page does not, the last non-empty page may or may not.
NextLinks(items, more) ==
    IF more THEN {TRUE} ELSE IF items = <<>> THEN {FALSE} ELSE BOOLEAN

\* Items of the answers logged so far.
RECURSIVE Served(_)
Served(l) == IF l = <<>> THEN 0 ELSE Len(Head(l).resp.items) + Served(Tail(l))

\* GET /groups/{id}/projects?page=p: 404 for a group that does not exist, 401 for
\* a token the remote rejects, else page p of the listing or a transient failure.
\* An endless remote answers every page with the same non-empty page and a
\* 'next' link; it is followed for MaxEndlessPages requests.
GroupAnswers(p) ==
    IF group.state = "absent" THEN {Failure(404)}
    ELSE IF group.state = "unauthorized" THEN {Failure(401)}
    ELSE IF group.state = "endless"
    THEN IF p <= MaxEndlessPages THEN {Page(group.list, TRUE)} ELSE {}
    ELSE LET first == (p - 1) * MaxPageLen + 1
             last  == Min(p * MaxPageLen, Len(group.list))
             items == SubSeq(group.list, first, last)
         IN  {Failure(500)} \cup
             {Page(items, n) : n \in NextLinks(items, Len(group.list) > last)}

\* A page of a listing the client fetches once: up to MaxPageLen items of pool,
\* the listing holding at most max items in all.
PageAnswers(pool, max) ==
    {Failure(500)} \cup
    UNION { {Page(s, n) : n \in NextLinks(s, FALSE)} :
            s \in SeqsUpTo(pool, Min(MaxPageLen, max - Served(log))) }

\* GET /projects/{id}/repository/branches?page=p: the branches are named in the
\* order they are listed.
BranchAnswers ==
    {Failure(500)} \cup
    UNION { LET items == [i \in 1..k |-> [name |-> Served(log) + i]]
            IN  {Page(items, n) : n \in NextLinks(items, FALSE)} :
            k \in 0..Min(MaxPageLen, MaxBranches - Served(log)) }

CommitAnswers == PageAnswers(Commits, MaxCommits)

MergeRequestAnswers == PageAnswers(MergeRequests, MaxMergeRequests)

\* GET /projects/{id}: found, not found, or another failure.
VerifyAnswers == {200, 404, 500}

(***************************************************************************)
(* gitlab_client.py: the pagination loop (one copy per resource).          *)
(***************************************************************************)
\* response.raise_for_status() passes / response.status_code == 200.
Ok(resp) == resp.status = 200

\* all_x.extend(page): reached only for an answer that is no error and not empty.
Extend(acc, resp) == IF Ok(resp) THEN acc \o resp.items ELSE acc

\* Variant of Continues: the loop does not look at the 'next' link.
ContinuesWithoutNext(resp) == Ok(resp) /\ resp.items # <<>>

\* The loop goes on to page + 1: no error, a non-empty page, a 'next' link.
Continues(resp) == Ok(resp) /\ resp.items # <<>> /\ resp.next

Logged(resp) == Append(log, [page |-> page, resp |-> resp])

(***************************************************************************)
(* gitlab_client.py: get_project_commits, after the loops.                 *)
(***************************************************************************)
\* commit_tuple: the element added to the set all_commits.
CommitTuple(commit) ==
    <<commit.id, commit.author_name, commit.authored_date, commit.title>>

AddCommits(set, resp) ==
    IF Ok(resp)
    THEN set \cup {CommitTuple(resp.items[i]) : i \in 1..Len(resp.items)}
    ELSE set

\* commits_list: one commit object per element of the set.  The list's order is
\* the set's iteration order, which nothing fixes: a set of records.
CommitsList(set) ==
    {[id |-> t[1], author_name |-> t[2], authored_date |-> t[3], title |-> t[4]] :
        t \in set}

\* str(e) of the exception get_project_commits raises for a verification answer.
VerifyError(status) ==
    IF status = 404 THEN "Project not found" ELSE "HTTPError"

(***************************************************************************)
(* services.py: _collect_project_stats.                                    *)
(***************************************************************************)
NoContributors == [a \in {} |-> [commits |-> 0, merge_requests |-> 0]]

\* contributors[author][field] += n for every author of counts, a defaultdict
\* entry starting at zero in both fields.
AddCounts(contributors, counts, field) ==
    [a \in DOMAIN contributors \cup DOMAIN counts |->
        LET old == IF a \in DOMAIN contributors THEN contributors[a]
                   ELSE [commits |-> 0, merge_requests |-> 0]
            n   == IF a \in DOMAIN counts THEN counts[a] ELSE 0
        IN  [old EXCEPT ![field] = @ + n]]

NewProjectStats(project) ==
    [id |-> project.id, name |-> project.name,
     commit_count |-> 0, merge_request_count |-> 0,
     contributors |-> NoContributors, errors |-> <<>>,
     status |-> [commits_available |-> FALSE, merge_requests_available |-> FALSE]]

\* The value project_stats holds while no project is being collected.
NoProjectStats == [id |-> 0]

\* The try block around get_project_commits, when it returns commits.
TallyCommits(ps, commits) ==
    LET authors == {c.author_name : c \in commits}
        counts  == [a \in authors |->
                       Cardinality({c \in commits : c.author_name = a})]
    IN  [ps EXCEPT !.commit_count = Cardinality(commits),
                   !.status.commits_available = TRUE,
                   !.contributors = AddCounts(@, counts, "commits")]

\* Variant of RecordError: the except block swallows the failure.
RecordErrorSilently(ps, type, error) == ps

\* An except block: the failure is appended to errors.
RecordError(ps, type, error) ==
    [ps EXCEPT !.errors = Append(@, [type |-> type, error |-> error])]

\* The try block around get_project_merge_requests, which returns a list.
TallyMergeRequests(ps, merge_requests) ==
    LET named   == {i \in 1..Len(merge_requests) :
                       /\ "author" \in DOMAIN merge_requests[i]
                       /\ "name" \in DOMAIN merge_requests[i].author}
        authors == {merge_requests[i].author.name : i \in named}
        counts  == [a \in authors |->
                       Cardinality({i \in named : merge_requests[i].author.name = a})]
    IN  [ps EXCEPT !.merge_request_count = Len(merge_requests),
                   !.status.merge_requests_available = TRUE,
                   !.contributors = AddCounts(@, counts, "merge_requests")]

(***************************************************************************)
(* services.py: collect_stats.                                             *)
(***************************************************************************)
\* The value stats holds before collect_stats has its project list.
NoStats == [total_projects |-> -1]

NewStats(project_list) ==
    [total_commits |-> 0, total_merge_requests |-> 0,
     total_projects |-> Len(project_list), processed_projects |-> 0,
     projects |-> <<>>, skipped_projects |-> <<>>,
     partial_data_projects |-> <<>>, contributors |-> NoContributors]

\* project.get('name', 'Unknown')
ProjectName(project) ==
    IF "name" \in DOMAIN project THEN project.name ELSE "Unknown"

\* stats['skipped_projects'].append(...): the exclusion and the except block.
Skip(st, project, reason) ==
    [st EXCEPT !.skipped_projects =
        Append(@, [id |-> project.id, name |-> ProjectName(project),
                   reason |-> reason])]

\* formatted_stats.  The contributors list follows the dict's insertion order,
\* which follows the iteration order of the commit set: a set of records.
FormatStats(ps) ==
    [id |-> ps.id, name |-> ps.name,
     commits |-> ps.commit_count, merge_requests |-> ps.merge_request_count,
     contributors |->
        {[name |-> a, commits |-> ps.contributors[a].commits,
          merge_requests |-> ps.contributors[a].merge_requests] :
            a \in DOMAIN ps.contributors}]

\* Variant of FoldContributors: the counts are assigned, not added.
FoldContributorsAssigning(contributors, ps) ==
    [a \in DOMAIN contributors \cup DOMAIN ps.contributors |->
        IF a \in DOMAIN ps.contributors THEN ps.contributors[a]
        ELSE contributors[a]]

\* The loop that updates the group-wide contributors.
FoldContributors(contributors, ps) ==
    AddCounts(
        AddCounts(contributors,
                  [a \in DOMAIN ps.contributors |-> ps.contributors[a].commits],
                  "commits"),
        [a \in DOMAIN ps.contributors |-> ps.contributors[a].merge_requests],
        "merge_requests")

\* Variant of FoldProject: a project with partial data is left out of the totals.
FoldProjectCompleteOnly(st, project, ps) ==
    [st EXCEPT
        !.contributors = FoldContributors(@, ps),
        !.partial_data_projects =
            IF ps.errors # <<>>
            THEN Append(@, [id |-> project.id, name |-> ProjectName(project),
                            errors |-> ps.errors])
            ELSE @,
        !.total_commits = IF ps.errors # <<>> THEN @ ELSE @ + ps.commit_count,
        !.total_merge_requests =
            IF ps.errors # <<>> THEN @ ELSE @ + ps.merge_request_count,
        !.projects = Append(@, FormatStats(ps)),
        !.processed_projects = @ + 1]

\* The try block of the for loop, once _collect_project_stats has returned.
FoldProject(st, project, ps) ==
    [st EXCEPT
        !.contributors = FoldContributors(@, ps),
        !.partial_data_projects =
            IF ps.errors # <<>>
            THEN Append(@, [id |-> project.id, name |-> ProjectName(project),
                            errors |-> ps.errors])
            ELSE @,
        !.total_commits = @ + ps.commit_count,
        !.total_merge_requests = @ + ps.merge_request_count,
        !.projects = Append(@, FormatStats(ps)),
        !.processed_projects = @ + 1]

\* stats with its summary, as collect_stats returns it.
Report(st) ==
    [f \in DOMAIN st \cup {"summary"} |->
        IF f = "summary"
        THEN [total_projects |-> st.total_projects,
              processed_projects |-> st.processed_projects,
              skipped_projects |-> Len(st.skipped_projects),
              partial_data_projects |-> Len(st.partial_data_projects)]
        ELSE st[f]]

(***************************************************************************)
(* routes.py: get_stats.                                                   *)
(***************************************************************************)
Requests == {"no_json", "missing_fields", "bad_url", "valid"}

NoResponse == [status |-> 0]

ErrorResponse(status, error) == [status |-> status, error |-> error]

\* The answer to a body that fails validation.
ValidationResponse(body) ==
    IF body = "no_json" THEN ErrorResponse(400, "No JSON data provided")
    ELSE IF body = "missing_fields" THEN ErrorResponse(400, "Missing required fields")
    ELSE ErrorResponse(400, "GitLab URL must start with http:// or https://")

(***************************************************************************)
(* The state after construction: a request has arrived, nothing has run.   *)
(***************************************************************************)
Groups ==
    {[state |-> s, list |-> <<>>] : s \in {"absent", "unauthorized"}} \cup
    {[state |-> "endless", list |-> <<AllProjects[1]>>]} \cup
    {[state |-> "present", list |-> l] : l \in Listings}

Init ==
    /\ request \in Requests
    /\ group \in Groups
    /\ pc = "start"
    /\ page = 1
    /\ all_items = <<>>
    /\ log = <<>>
    /\ projects = <<>>
    /\ idx = 0
    /\ stats = NoStats
    /\ project_stats = NoProjectStats
    /\ verify_status = 0
    /\ branches = <<>>
    /\ bidx = 0
    /\ all_commits = {}
    /\ requested = {}
    /\ response = NoResponse

\* A pagination loop starts: page = 1 and an empty list.
LoopStarts ==
    /\ page' = 1
    /\ all_items' = <<>>
    /\ log' = <<>>

\* A pagination loop goes on to its next page.
LoopGoesOn(resp) ==
    /\ page' = page + 1
    /\ all_items' = Extend(all_items, resp)
    /\ log' = Logged(resp)

\* A pagination loop ends: its list is returned.
LoopEnds(resp) ==
    /\ page' = page
    /\ all_items' = Extend(all_items, resp)
    /\ log' = Logged(resp)

\* get_stats up to its first request: the validation of the body.
get_stats ==
    /\ pc = "start"
    /\ IF request = "valid"
       THEN /\ pc' = "route_projects"
            /\ response' = response
       ELSE /\ pc' = "done"
            /\ response' = ValidationResponse(request)
    /\ UNCHANGED requested
    /\ UNCHANGED <<request, group, page, all_items, log, projects, idx, stats,
                   project_stats, verify_status, branches, bidx, all_commits>>

\* One page request of get_group_projects, called by get_stats and then by
\* collect_stats, and what its caller does when it returns.  The loop body is
\* inside try/except Exception: a failed request ends the loop and the list
\* fetched so far is returned, so the except blocks of get_stats never run.
get_group_projects ==
    /\ pc \in {"route_projects", "service_projects"}
    /\ \E resp \in GroupAnswers(page) :
        IF Continues(resp)
        THEN /\ LoopGoesOn(resp)
             /\ UNCHANGED <<pc, projects, idx, stats, response>>
        ELSE IF pc = "route_projects"
        THEN IF Extend(all_items, resp) = <<>>
             THEN /\ LoopEnds(resp)
                  /\ pc' = "done"
                  /\ response' = ErrorResponse(404, "No projects found in group")
                  /\ UNCHANGED <<projects, idx, stats>>
             ELSE /\ LoopStarts
                  /\ pc' = "service_projects"
                  /\ UNCHANGED <<projects, idx, stats, response>>
        ELSE /\ LoopEnds(resp)
             /\ projects' = Extend(all_items, resp)
             /\ stats' = NewStats(Extend(all_items, resp))
             /\ idx' = 1
             /\ pc' = "projects_loop"
             /\ response' = response
    /\ UNCHANGED requested
    /\ UNCHANGED <<request, group, project_stats, verify_status, branches, bidx,
                   all_commits>>

\* Variant of Excluded: no project is excluded.
ExcludedNever(project) == FALSE

\* if project_id == 174
Excluded(project) == project.id = ExcludedProjectId

\* The head of the for loop of collect_stats: the excluded project is skipped;
\* _collect_project_stats raises KeyError for a project without 'name', which
\* the except block turns into a skip; else the collection of the project starts.
collect_stats ==
    /\ pc = "projects_loop"
    /\ idx <= Len(projects)
    /\ LET project == projects[idx]
       IN  IF Excluded(project)
           THEN /\ stats' = Skip(stats, project, "Project ID temporarily excluded")
                /\ idx' = idx + 1
                /\ UNCHANGED <<pc, project_stats>>
           ELSE IF "name" \notin DOMAIN project
           THEN /\ stats' = Skip(stats, project, "'name'")
                /\ idx' = idx + 1
                /\ UNCHANGED <<pc, project_stats>>
           ELSE /\ project_stats' = NewProjectStats(project)
                /\ pc' = "verify_project"
                /\ UNCHANGED <<stats, idx>>
    /\ UNCHANGED requested
    /\ UNCHANGED <<request, group, page, all_items, log, projects, verify_status,
                   branches, bidx, all_commits, response>>

\* get_project_commits: GET /projects/{id}.  A 404 or another failure is
\* raised, and caught by the first except block of _collect_project_stats.
verify_project ==
    /\ pc = "verify_project"
    /\ \E status \in VerifyAnswers :
        /\ verify_status' = status
        /\ IF status = 200
           THEN /\ pc' = "branches"
                /\ project_stats' = project_stats
           ELSE /\ pc' = "merge_requests"
                /\ project_stats' =
                       RecordError(project_stats, "commits", VerifyError(status))
    /\ LoopStarts
    /\ requested' = requested \cup {projects[idx].id}
    /\ UNCHANGED <<request, group, projects, idx, stats, branches, bidx,
                   all_commits, response>>

\* One page request of get_project_branches.  With no branch the commit set
\* stays empty and get_project_commits returns an empty list.
get_project_branches ==
    /\ pc = "branches"
    /\ \E resp \in BranchAnswers :
        IF Continues(resp)
        THEN /\ LoopGoesOn(resp)
             /\ UNCHANGED <<pc, project_stats, branches, bidx>>
        ELSE /\ LoopStarts
             /\ branches' = Extend(all_items, resp)
             /\ IF Extend(all_items, resp) = <<>>
                THEN /\ pc' = "merge_requests"
                     /\ bidx' = bidx
                     /\ project_stats' = TallyCommits(project_stats, CommitsList({}))
                ELSE /\ pc' = "commits"
                     /\ bidx' = 1
                     /\ project_stats' = project_stats
    /\ requested' = requested \cup {projects[idx].id}
    /\ UNCHANGED <<request, group, projects, idx, stats, verify_status,
                   all_commits, response>>

\* One page request of the commit loop of branch bidx.  After the last branch
\* get_project_commits returns and _collect_project_stats tallies the commits.
get_project_commits ==
    /\ pc = "commits"
    /\ \E resp \in CommitAnswers :
        /\ all_commits' = AddCommits(all_commits, resp)
        /\ IF Continues(resp)
           THEN /\ page' = page + 1
                /\ log' = Logged(resp)
                /\ UNCHANGED <<pc, bidx, project_stats, all_items>>
           ELSE /\ LoopStarts
                /\ IF bidx < Len(branches)
                   THEN /\ bidx' = bidx + 1
                        /\ UNCHANGED <<pc, project_stats>>
                   ELSE /\ pc' = "merge_requests"
                        /\ bidx' = bidx
                        /\ project_stats' =
                               TallyCommits(project_stats,
                                            CommitsList(AddCommits(all_commits, resp)))
    /\ requested' = requested \cup {projects[idx].id}
    /\ UNCHANGED <<request, group, projects, idx, stats, verify_status, branches,
                   response>>

\* One page request of get_project_merge_requests.  When it returns,
\* _collect_project_stats tallies the merge requests and returns.
get_project_merge_requests ==
    /\ pc = "merge_requests"
    /\ \E resp \in MergeRequestAnswers :
        IF Continues(resp)
        THEN /\ LoopGoesOn(resp)
             /\ UNCHANGED <<pc, project_stats>>
        ELSE /\ LoopEnds(resp)
             /\ pc' = "collected"
             /\ project_stats' =
                    TallyMergeRequests(project_stats, Extend(all_items, resp))
    /\ requested' = requested \cup {projects[idx].id}
    /\ UNCHANGED <<request, group, projects, idx, stats, verify_status, branches,
                   bidx, all_commits, response>>

\* collect_stats folds the result of _collect_project_stats into the report and
\* goes on to the next project.
fold_project ==
    /\ pc = "collected"
    /\ stats' = FoldProject(stats, projects[idx], project_stats)
    /\ idx' = idx + 1
    /\ pc' = "projects_loop"
    /\ project_stats' = NoProjectStats
    /\ verify_status' = 0
    /\ branches' = <<>>
    /\ bidx' = 0
    /\ all_commits' = {}
    /\ LoopStarts
    /\ UNCHANGED requested
    /\ UNCHANGED <<request, group, projects, response>>

\* After the last project collect_stats returns the report and get_stats
\* answers with it.
return_report ==
    /\ pc = "projects_loop"
    /\ idx > Len(projects)
    /\ pc' = "done"
    /\ response' = [status |-> 200, report |-> Report(stats)]
    /\ UNCHANGED requested
    /\ UNCHANGED <<request, group, page, all_items, log, projects, idx, stats,
                   project_stats, verify_status, branches, bidx, all_commits>>

Next ==
    \/ get_stats
    \/ get_group_projects
    \/ collect_stats
    \/ verify_project
    \/ get_project_branches
    \/ get_project_commits
    \/ get_project_merge_requests
    \/ fold_project
    \/ return_report

Spec == Init /\ [][Next]_vars

(***************************************************************************)
(* Properties.                                                             *)
(***************************************************************************)
\* get_project_commits has returned its list for the current project.
CommitsReturned == pc \in {"merge_requests", "collected"} /\ verify_status = 200

\* A request of the loop that has just ended failed.
LoopFailed == \E i \in 1..Len(log) : log[i].resp.status # 200

Ids(list) == {list[i].id : i \in 1..Len(list)}

\* C1: the commit list get_project_commits returns holds at most one record per
\* commit id, so its length is the number of distinct ids the branch pages held,
\* also when two records with one id differ in another field.
C1_OneRecordPerCommitId ==
    CommitsReturned =>
        /\ \A c, d \in CommitsList(all_commits) : c.id = d.id => c = d
        /\ project_stats.commit_count = Cardinality({t[1] : t \in all_commits})

\* C2: when get_project_commits raises and get_project_merge_requests returns
\* a list, _collect_project_stats returns a result with commits_available
\* false, merge_requests_available true, an errors entry of type 'commits',
\* commit_count 0 and merge_request_count the length of the returned list.
C2_CommitFailureIsolated ==
    (pc = "collected" /\ verify_status \notin {0, 200}) =>
        /\ project_stats.status.commits_available = FALSE
        /\ project_stats.status.merge_requests_available = TRUE
        /\ \E i \in 1..Len(project_stats.errors) :
              project_stats.errors[i].type = "commits"
        /\ project_stats.commit_count = 0
        /\ project_stats.merge_request_count = Len(all_items)

C2_Witness ==
    /\ pc = "collected"
    /\ verify_status = 404
    /\ project_stats.merge_request_count = 2
    /\ Len(project_stats.errors) = 1

\* C3: when a merge-request page request fails while the commit fetch succeeds,
\* the result has merge_requests_available false and an errors entry of type
\* 'merge_requests', its commit count is populated, and the project is then
\* listed in partial_data_projects.
C3_MergeRequestFailureFlagged ==
    [][(pc = "collected" /\ verify_status = 200 /\ LoopFailed) =>
          /\ project_stats.status.merge_requests_available = FALSE
          /\ \E i \in 1..Len(project_stats.errors) :
                project_stats.errors[i].type = "merge_requests"
          /\ project_stats.status.commits_available = TRUE
          /\ project_stats.commit_count = Cardinality(all_commits)
          /\ projects[idx].id \in Ids(stats'.partial_data_projects)]_vars

\* C4: a project whose verification answers 404 is appended to
\* skipped_projects with the reason, is not in projects and is not counted in
\* processed_projects.
C4_UnverifiedProjectSkipped ==
    [][(pc = "collected" /\ verify_status = 404) =>
          /\ \E i \in 1..Len(stats'.skipped_projects) :
                /\ stats'.skipped_projects[i].id = projects[idx].id
                /\ stats'.skipped_projects[i].reason = VerifyError(404)
          /\ projects[idx].id \notin Ids(stats'.projects)
          /\ stats'.processed_projects = stats.processed_projects]_vars

\* C5: when the remote answers the group-projects request with 404 or 401, the
\* failure reaches get_stats, which answers 404 'Group not found' or 401.
C5_GroupFailurePropagates ==
    (pc = "done" /\ request = "valid") =>
        /\ group.state = "absent" => response = ErrorResponse(404, "Group not found")
        /\ group.state = "unauthorized" => response.status = 401

\* C6: an existing group without projects gets a report with total_projects 0,
\* empty projects and no error; a group that does not exist gets a failure.
C6_EmptyGroupIsNotAnError ==
    (pc = "done" /\ request = "valid") =>
        /\ (group.state = "present" /\ group.list = <<>> /\ ~LoopFailed) =>
              /\ response.status = 200
              /\ response.report.total_projects = 0
              /\ response.report.projects = <<>>
        /\ group.state = "absent" => response.status \notin {0, 200}

\* C7: the response is never a report with total_projects 0 and no error for a
\* group that has projects.
C7_NoSilentEmptyReport ==
    (pc = "done" /\ response.status = 200) =>
        ~(response.report.total_projects = 0 /\ group.list # <<>>)

\* The two totals of a report are the sums over its projects entries.
TotalsAreSums(st) ==
    /\ st.total_commits =
          SumSeq([i \in 1..Len(st.projects) |-> st.projects[i].commits])
    /\ st.total_merge_requests =
          SumSeq([i \in 1..Len(st.projects) |-> st.projects[i].merge_requests])

\* C8: in the report of collect_stats, while it is built and as it is returned,
\* total_commits is the sum of commits over projects and total_merge_requests
\* the sum of merge_requests; what is not in projects adds nothing.
C8_TotalsAreSums ==
    /\ stats # NoStats => TotalsAreSums(stats)
    /\ response.status = 200 => TotalsAreSums(response.report)

C8_Witness ==
    /\ pc = "done"
    /\ response.status = 200
    /\ Len(response.report.projects) = 2
    /\ \A i \in 1..2 : /\ response.report.projects[i].commits > 0
                        /\ response.report.projects[i].merge_requests > 0
    /\ response.report.total_commits = 3
    /\ Len(response.report.partial_data_projects) = 0

\* The commits of author a in one entry of projects (0 without an entry).
CommitsIn(entry, a) ==
    LET own == {c \in entry.contributors : c.name = a}
    IN  IF own = {} THEN 0 ELSE (CHOOSE c \in own : TRUE).commits

ContributedTo(entry, a) ==
    \E c \in entry.contributors :
        c.name = a /\ (c.commits >= 1 \/ c.merge_requests >= 1)

ListedAuthors(st) ==
    UNION {{c.name : c \in st.projects[i].contributors} : i \in 1..Len(st.projects)}

ContributorsAreSums(st) ==
    /\ \A a \in DOMAIN st.contributors :
          /\ st.contributors[a].commits =
                SumSeq([i \in 1..Len(st.projects) |-> CommitsIn(st.projects[i], a)])
          /\ \E i \in 1..Len(st.projects) : ContributedTo(st.projects[i], a)
    /\ ListedAuthors(st) \subseteq DOMAIN st.contributors

\* C9: in the report of collect_stats, an author's commits in the group-wide
\* contributors are the sum of the author's commits over the contributor lists
\* of the processed projects, and the map holds an author only if a processed
\* project has a commit or a merge request of that author.
C9_ContributorsAreSums ==
    /\ stats # NoStats => ContributorsAreSums(stats)
    /\ response.status = 200 => ContributorsAreSums(response.report)

C9_Witness ==
    /\ pc = "done"
    /\ response.status = 200
    /\ Len(response.report.projects) = 2
    /\ \A i \in 1..2 : CommitsIn(response.report.projects[i], "ann") >= 1
    /\ CommitsIn(response.report.projects[1], "bob") = 1
    /\ response.report.contributors["ann"].commits = 3
    /\ response.report.contributors["bob"].commits = 1

\* The items of the logged answers, in order.
RECURSIVE Pages(_)
Pages(l) == IF l = <<>> THEN <<>> ELSE Head(l).resp.items \o Pages(Tail(l))

\* An answer after which nothing more is to be fetched: a failure, an empty
\* page, or a page without a 'next' link.
LastPage(resp) == resp.status # 200 \/ resp.items = <<>> \/ ~resp.next

\* The loop that filled log has returned its list.
LoopReturned == log # <<>> /\ pc \in {"projects_loop", "collected", "done"}

\* C10: a paginated fetch requests pages 1, 2, 3, ... in order, makes no
\* request after the first page that fails, is empty or carries no 'next'
\* link, and returns the concatenation of the pages it received.
C10_PaginatedFetch ==
    /\ \A i \in 1..Len(log) : log[i].page = i
    /\ \A i \in 1..(Len(log) - 1) : ~LastPage(log[i].resp)
    /\ pc # "commits" => all_items = Pages(log)
    /\ LoopReturned => LastPage(log[Len(log)].resp)
    /\ (pc = "projects_loop" /\ log # <<>>) => projects = Pages(log)

\* Page 1 holds two items and a 'next' link, page 2 is empty: two requests,
\* and the list is page 1.
C10_Witness ==
    /\ pc = "projects_loop"
    /\ Len(log) = 2
    /\ Len(log[1].resp.items) = 2
    /\ log[1].resp.next
    /\ log[2].resp = Page(<<>>, FALSE)
    /\ projects = log[1].resp.items

\* The excluded project at the first n positions of the listing is in the
\* skipped list of st with the exclusion reason, and in neither other list.
ExcludedSkipped(st, n) ==
    /\ \A i \in 1..n :
          projects[i].id = ExcludedProjectId =>
              \E j \in 1..Len(st.skipped_projects) :
                  st.skipped_projects[j] =
                      [id |-> ExcludedProjectId, name |-> ProjectName(projects[i]),
                       reason |-> "Project ID temporarily excluded"]
    /\ ExcludedProjectId \notin Ids(st.projects)
    /\ ExcludedProjectId \notin Ids(st.partial_data_projects)

\* C11: a listed project with the excluded id is placed in skipped_projects
\* with reason 'Project ID temporarily excluded', is never in projects or
\* partial_data_projects, and no verification, branch, commit or merge-request
\* request is sent for it, whatever the remote would answer.
C11_ExcludedProjectSkipped ==
    /\ ExcludedProjectId \notin requested
    /\ stats # NoStats => ExcludedSkipped(stats, idx - 1)
    /\ response.status = 200 => ExcludedSkipped(response.report, Len(projects))

C11_Witness ==
    /\ pc = "done"
    /\ response.status = 200
    /\ ExcludedProjectId \in Ids(projects)
    /\ ExcludedProjectId \in Ids(response.report.skipped_projects)
    /\ Len(response.report.projects) = 1
    /\ requested # {}

\* A pagination loop is running.
InLoop ==
    pc \in {"route_projects", "service_projects", "branches", "commits",
            "merge_requests"}

\* C12: a paginated fetch asks for page 1, 2, 3, ... (the index grows by one
\* per request that does not end the loop, no index is asked twice), and the
\* loop ends after finitely many requests also against a remote that keeps
\* answering non-empty pages with a 'next' link: within the requests such a
\* remote is followed for, the loop has ended.
C12_LoopsEnd ==
    /\ \A i \in 1..Len(log) : log[i].page = i
    /\ InLoop => page = Len(log) + 1
    /\ (InLoop /\ group.state = "endless") => Len(log) < MaxEndlessPages

====
